---- MODULE Spec2Model ----
(***************************************************************************)
(* Model of the machine-code generation core of AsMacro-lang:              *)
(*   util/src/svec.rs      SVec, the fixed-capacity stack sequence         *)
(*   asm/src/encoder.rs    Rex, ModRm, Sib, Opecode, Disp, Imm, Encoder    *)
(*   asm/src/line/mod.rs   RowLine, Operator, the operators table          *)
(* Four specifications share the variables; each drives one component and  *)
(* leaves the variables of the others at their initial values.             *)
(***************************************************************************)
EXTENDS Integers, Sequences, FiniteSets, TLC

VARIABLES
    svec,           \* the SVec<C, T> under test: [array, len]
    svecCall,       \* last call on svec: operation, argument, pre-state, outcome
    svecGhost,      \* history: for each live index, how its element got there
    rex,            \* Rex(u8, bool): [byte, enabled]
    modRm,          \* ModRm(u8)
    sib,            \* Sib(u8)
    lastSet,        \* history: last argument given to each setter
    fieldObject,    \* which byte-field value the behaviour drives
    encoder,        \* a populated Encoder
    binary,         \* outcome of the last encode() call
    rowLine,        \* a RowLine: [label, mnemonic, operands]
    operatorsList,  \* the table passed as operators_list
    lineResult,     \* outcome of the last to_line call
    indexResult     \* outcome of the last get_operation_index call

vars == <<svec, svecCall, svecGhost, rex, modRm, sib, lastSet, fieldObject, encoder, binary,
          rowLine, operatorsList, lineResult, indexResult>>

svecVars == <<svec, svecCall, svecGhost>>
fieldVars == <<rex, modRm, sib, lastSet, fieldObject>>
encoderVars == <<encoder, binary>>
lineVars == <<rowLine, operatorsList, lineResult, indexResult>>

Min(a, b) == IF a < b THEN a ELSE b

(***************************************************************************)
(* util/src/svec.rs                                                        *)
(***************************************************************************)

\* The capacity C of the SVec driven by SpecSVec (a generic parameter).
SVecC == 3
\* The largest element value pushed; T = 0..MaxElem, T::default() = 0.
MaxElem == 2

Elem == 0..MaxElem
Default == 0

\* Option::None and the marker of a panicking call.
None == [kind |-> "None"]
Panic == [kind |-> "Panic"]
Some(v) == [kind |-> "Some", value |-> v]

SVecNew(C) == [array |-> [i \in 0..(C - 1) |-> Default], len |-> 0]

SVecLen(s) == s.len

\* Deref: the slice array[0..len] as a sequence.
SVecSlice(s) == [i \in 1..s.len |-> s.array[i - 1]]

SVecPush(C, s, value) ==
    IF SVecLen(s) = C
    THEN [panic |-> TRUE, svec |-> s]
    ELSE [panic |-> FALSE,
          svec |-> [array |-> [s.array EXCEPT ![(s.len + 1) - 1] = value],
                    len |-> s.len + 1]]

\* A pop that reads the first element instead of the last.
SVecPopFirst(s) ==
    IF s.len = 0
    THEN [panic |-> TRUE, svec |-> s, elm |-> Default]
    ELSE [panic |-> FALSE, svec |-> [s EXCEPT !.len = s.len - 1], elm |-> s.array[0]]

SVecPop(s) ==
    IF SVecLen(s) = 0
    THEN [panic |-> TRUE, svec |-> s, elm |-> Default]
    ELSE [panic |-> FALSE,
          svec |-> [s EXCEPT !.len = s.len - 1],
          elm |-> s.array[SVecLen(s) - 1]]

\* A resize that forgets to reset the newly exposed slots.
SVecResizeNoFill(C, s, len) ==
    IF C < len
    THEN [panic |-> TRUE, svec |-> s]
    ELSE [panic |-> FALSE, svec |-> [s EXCEPT !.len = len]]

SVecResize(C, s, len) ==
    IF C < len
    THEN [panic |-> TRUE, svec |-> s]
    ELSE LET old_len == SVecLen(s)
         IN  [panic |-> FALSE,
              svec |-> [array |-> [i \in DOMAIN s.array |->
                                     IF old_len <= i /\ i < len
                                     THEN Default ELSE s.array[i]],
                        len |-> len]]

NoCall == [op |-> "new", arg |-> 0, pre |-> SVecNew(SVecC), preGhost |-> <<>>,
           panic |-> FALSE, elm |-> Default]

\* SVec::new(): the state of the SVec before any call.
SVecIdle ==
    /\ svec = SVecNew(SVecC)
    /\ svecCall = NoCall
    /\ svecGhost = <<>>

Push ==
    \E value \in Elem :
        LET r == SVecPush(SVecC, svec, value)
        IN  /\ svec' = r.svec
            /\ svecCall' = [op |-> "push", arg |-> value, pre |-> svec,
                            preGhost |-> svecGhost, panic |-> r.panic,
                            elm |-> Default]
            /\ svecGhost' = IF r.panic THEN svecGhost
                            ELSE Append(svecGhost, [src |-> "push", val |-> value])
            /\ UNCHANGED <<fieldVars, encoderVars, lineVars>>

Pop ==
    LET r == SVecPop(svec)
    IN  /\ svec' = r.svec
        /\ svecCall' = [op |-> "pop", arg |-> 0, pre |-> svec,
                        preGhost |-> svecGhost, panic |-> r.panic, elm |-> r.elm]
        /\ svecGhost' = IF r.panic THEN svecGhost
                        ELSE SubSeq(svecGhost, 1, Len(svecGhost) - 1)
        /\ UNCHANGED <<fieldVars, encoderVars, lineVars>>

Resize ==
    \E len \in 0..(SVecC + 1) :
        LET r == SVecResize(SVecC, svec, len)
        IN  /\ svec' = r.svec
            /\ svecCall' = [op |-> "resize", arg |-> len, pre |-> svec,
                            preGhost |-> svecGhost, panic |-> r.panic,
                            elm |-> Default]
            /\ svecGhost' =
                 IF r.panic THEN svecGhost
                 ELSE [i \in 1..len |->
                         IF i <= Len(svecGhost) THEN svecGhost[i]
                         ELSE [src |-> "default", val |-> Default]]
            /\ UNCHANGED <<fieldVars, encoderVars, lineVars>>

(***************************************************************************)
(* asm/src/encoder.rs: u8 arithmetic and the byte-field setters            *)
(***************************************************************************)

Pow2(n) == 2 ^ n

Bit(x, k) == (x \div Pow2(k)) % 2

\* a & b, a | b, !a and a << n on u8.
And8(a, b) ==
    LET f[k \in 0..8] == IF k = 8 THEN 0
                         ELSE Bit(a, k) * Bit(b, k) * Pow2(k) + f[k + 1]
    IN  f[0]

Or8(a, b) ==
    LET f[k \in 0..8] ==
          IF k = 8 THEN 0
          ELSE (IF Bit(a, k) = 1 \/ Bit(b, k) = 1 THEN Pow2(k) ELSE 0) + f[k + 1]
    IN  f[0]

Not8(a) == 255 - a

Shl8(a, n) == (a * Pow2(n)) % 256

RexNew == [byte |-> 64, enabled |-> FALSE]

RexEnable(x) == [x EXCEPT !.enabled = TRUE]

\* set_w, set_r, set_x, set_b: clear the flag's bit, then set it if asked.
RexSetBit(x, mask, flag) ==
    LET cleared == And8(x.byte, Not8(mask))
    IN  [x EXCEPT !.byte = IF flag THEN Or8(cleared, mask) ELSE cleared]

RexSetW(x, w) == RexSetBit(x, 8, w)
RexSetR(x, r) == RexSetBit(x, 4, r)
RexSetX(x, xf) == RexSetBit(x, 2, xf)
RexSetB(x, b) == RexSetBit(x, 1, b)

RexGet(x) == IF x.enabled THEN Some(x.byte) ELSE None

ModRmNew == 0

\* A setter that ORs the new field in without clearing the old one.
ModRmSetRegNoClear(m, reg) == Or8(m, Shl8(And8(reg, 7), 3))

ModRmSetMod(m, mod) == Or8(And8(m, Not8(192)), Shl8(And8(mod, 3), 6))
ModRmSetReg(m, reg) == Or8(And8(m, Not8(56)), Shl8(And8(reg, 7), 3))
ModRmSetRm(m, rm) == Or8(And8(m, Not8(7)), And8(rm, 7))
ModRmGet(m) == m

SibNew == 0
SibSetScale(s, scale) == Or8(And8(s, Not8(192)), Shl8(And8(scale, 3), 6))
SibSetIndex(s, index) == Or8(And8(s, Not8(56)), Shl8(And8(index, 7), 3))
SibSetBase(s, base) == Or8(And8(s, Not8(7)), And8(base, 7))
SibGet(s) == s

\* The u8 arguments handed to the setters.
ByteArgs == {0, 1, 2, 3, 5, 7, 8, 170, 192, 255}

NeverSet == [mod |-> 0, reg |-> 0, rm |-> 0, scale |-> 0, index |-> 0, base |-> 0,
             w |-> FALSE, r |-> FALSE, x |-> FALSE, b |-> FALSE]

FieldsIdle ==
    /\ rex = RexNew
    /\ modRm = ModRmNew
    /\ sib = SibNew
    /\ lastSet = NeverSet
    /\ fieldObject = "Rex"

Enable ==
    /\ fieldObject = "Rex"
    /\ rex' = RexEnable(rex)
    /\ UNCHANGED <<modRm, sib, lastSet, fieldObject, svecVars, encoderVars, lineVars>>

SetW ==
    \E w \in BOOLEAN :
        /\ fieldObject = "Rex"
        /\ rex' = RexSetW(rex, w)
        /\ lastSet' = [lastSet EXCEPT !.w = w]
        /\ UNCHANGED <<modRm, sib, fieldObject, svecVars, encoderVars, lineVars>>

SetR ==
    \E r \in BOOLEAN :
        /\ fieldObject = "Rex"
        /\ rex' = RexSetR(rex, r)
        /\ lastSet' = [lastSet EXCEPT !.r = r]
        /\ UNCHANGED <<modRm, sib, fieldObject, svecVars, encoderVars, lineVars>>

SetX ==
    \E x \in BOOLEAN :
        /\ fieldObject = "Rex"
        /\ rex' = RexSetX(rex, x)
        /\ lastSet' = [lastSet EXCEPT !.x = x]
        /\ UNCHANGED <<modRm, sib, fieldObject, svecVars, encoderVars, lineVars>>

SetB ==
    \E b \in BOOLEAN :
        /\ fieldObject = "Rex"
        /\ rex' = RexSetB(rex, b)
        /\ lastSet' = [lastSet EXCEPT !.b = b]
        /\ UNCHANGED <<modRm, sib, fieldObject, svecVars, encoderVars, lineVars>>

SetMod ==
    \E mod \in ByteArgs :
        /\ fieldObject = "ModRm"
        /\ modRm' = ModRmSetMod(modRm, mod)
        /\ lastSet' = [lastSet EXCEPT !.mod = mod]
        /\ UNCHANGED <<rex, sib, fieldObject, svecVars, encoderVars, lineVars>>

SetReg ==
    \E reg \in ByteArgs :
        /\ fieldObject = "ModRm"
        /\ modRm' = ModRmSetReg(modRm, reg)
        /\ lastSet' = [lastSet EXCEPT !.reg = reg]
        /\ UNCHANGED <<rex, sib, fieldObject, svecVars, encoderVars, lineVars>>

SetRm ==
    \E rm \in ByteArgs :
        /\ fieldObject = "ModRm"
        /\ modRm' = ModRmSetRm(modRm, rm)
        /\ lastSet' = [lastSet EXCEPT !.rm = rm]
        /\ UNCHANGED <<rex, sib, fieldObject, svecVars, encoderVars, lineVars>>

SetScale ==
    \E scale \in ByteArgs :
        /\ fieldObject = "Sib"
        /\ sib' = SibSetScale(sib, scale)
        /\ lastSet' = [lastSet EXCEPT !.scale = scale]
        /\ UNCHANGED <<rex, modRm, fieldObject, svecVars, encoderVars, lineVars>>

SetIndex ==
    \E index \in ByteArgs :
        /\ fieldObject = "Sib"
        /\ sib' = SibSetIndex(sib, index)
        /\ lastSet' = [lastSet EXCEPT !.index = index]
        /\ UNCHANGED <<rex, modRm, fieldObject, svecVars, encoderVars, lineVars>>

SetBase ==
    \E base \in ByteArgs :
        /\ fieldObject = "Sib"
        /\ sib' = SibSetBase(sib, base)
        /\ lastSet' = [lastSet EXCEPT !.base = base]
        /\ UNCHANGED <<rex, modRm, fieldObject, svecVars, encoderVars, lineVars>>

(***************************************************************************)
(* asm/src/encoder.rs: Encoder::encode                                     *)
(***************************************************************************)

\* Capacity of Opecode's SVec<3, u8> and of encode()'s SVec<18, u8>.
OpecodeCap == 3
\* A capacity that leaves the REX byte out of the sum.
EncodeCapNoRex == 3 + 1 + 1 + 4 + 8
EncodeCap == 18

\* Bytes taken most significant first: the slip of counting the shift down.
ByteAtBigEndian(v, i) ==
    LET j == (2 * Len(v) - 1) - i
        limb == v[Len(v) - (j \div 2)]
    IN  (limb \div Pow2((j % 2) * 8)) % 256

\* u16, u32 and u64 values are written as sequences of 16-bit limbs, most
\* significant limb first (a u64 does not fit TLC's 32-bit integers); a u8
\* is a plain number, in field b.
\* ((v >> (i*8)) & 0xff) as u8
ByteAt(v, i) ==
    LET limb == v[Len(v) - (i \div 2)]
        shifted == limb \div Pow2((i % 2) * 8)
    IN  shifted % 256

DispNone == [tag |-> "None"]
Disp8(d) == [tag |-> "Disp8", b |-> d]
Disp32(d) == [tag |-> "Disp32", v |-> d]

ImmNone == [tag |-> "None"]
Imm8(i) == [tag |-> "Imm8", b |-> i]
Imm16(i) == [tag |-> "Imm16", v |-> i]
Imm32(i) == [tag |-> "Imm32", v |-> i]
Imm64(i) == [tag |-> "Imm64", v |-> i]

EncoderNew ==
    [rex_prefix |-> RexNew, opecode |-> SVecNew(OpecodeCap), mod_rm |-> None,
     sib |-> None, disp |-> DispNone, imm |-> ImmNone]

\* binary.push(b) for each b of bytes, in order; a panic ends the call.
RECURSIVE PushAll(_, _, _)
PushAll(C, r, bytes) ==
    IF bytes = <<>> \/ r.panic THEN r
    ELSE PushAll(C, SVecPush(C, r.svec, Head(bytes)), Tail(bytes))

\* for i in 0 .. n { binary.push(((v >> (i*8)) & 0xff) as u8); }
PushValue(C, r, v, n) == PushAll(C, r, [k \in 1..n |-> ByteAt(v, k - 1)])

Encode(e) ==
    LET b0 == [panic |-> FALSE, svec |-> SVecNew(EncodeCap)]
        rx == RexGet(e.rex_prefix)
        b1 == IF rx.kind = "Some" THEN PushAll(EncodeCap, b0, <<rx.value>>) ELSE b0
        b2 == PushAll(EncodeCap, b1, SVecSlice(e.opecode))
        b3 == IF e.mod_rm.kind = "Some"
              THEN PushAll(EncodeCap, b2, <<ModRmGet(e.mod_rm.value)>>) ELSE b2
        b4 == IF e.sib.kind = "Some"
              THEN PushAll(EncodeCap, b3, <<SibGet(e.sib.value)>>) ELSE b3
        b5 == CASE e.disp.tag = "None" -> b4
                [] e.disp.tag = "Disp8" -> PushAll(EncodeCap, b4, <<e.disp.b>>)
                [] e.disp.tag = "Disp32" -> PushValue(EncodeCap, b4, e.disp.v, 4)
        b6 == CASE e.imm.tag = "None" -> b5
                [] e.imm.tag = "Imm8" -> PushAll(EncodeCap, b5, <<e.imm.b>>)
                [] e.imm.tag = "Imm16" -> PushValue(EncodeCap, b5, e.imm.v, 2)
                [] e.imm.tag = "Imm32" -> PushValue(EncodeCap, b5, e.imm.v, 4)
                [] e.imm.tag = "Imm64" -> PushValue(EncodeCap, b5, e.imm.v, 8)
    IN  b6

\* The populated Encoders the specification draws from.
RexBytes == {64, 72, 77}
OpBytes == {15, 184}
Opecodes ==
    {[array |-> a, len |-> n] :
        a \in [0..(OpecodeCap - 1) -> OpBytes], n \in 0..OpecodeCap}
Disps == {DispNone, Disp8(127), Disp32(<<4660, 22136>>)}
Imms == {ImmNone, Imm8(17), Imm16(<<48879>>), Imm32(<<57005, 48879>>),
         Imm64(<<258, 772, 1286, 1800>>), Imm64(<<0, 0, 0, 123>>)}
Encoders ==
    [rex_prefix : [byte : RexBytes, enabled : BOOLEAN],
     opecode : Opecodes,
     mod_rm : {None, Some(193)},
     sib : {None, Some(36)},
     disp : Disps,
     imm : Imms]

EncoderIdle ==
    /\ encoder = EncoderNew
    /\ binary = None

DoEncode ==
    /\ binary' = Some(Encode(encoder))
    /\ UNCHANGED <<encoder, svecVars, fieldVars, lineVars>>

(***************************************************************************)
(* asm/src/line/mod.rs                                                     *)
(***************************************************************************)

\* Capacity of the operand sequences, SVec<2, _>.
OperandCap == 2

\* SVec::value(array, len): an SVec holding the first len elements of array.
SVecValue(array, len) ==
    [array |-> [i \in 0..(Len(array) - 1) |-> array[i + 1]], len |-> len]

\* The parsing collaborators, on the operand texts of the model.
NumericLiterals == {"123"}
RegisterNames == {"rax"}
MemoryReferences == {"[rax]"}
Stoi(expr) == IF expr \in NumericLiterals THEN Some(<<0, 0, 0, 123>>) ELSE None
GetReg64Str(expr) == IF expr \in RegisterNames THEN Some(expr) ELSE None
GetRm64RefStr(expr) == IF expr \in MemoryReferences THEN Some(expr) ELSE None

\* OperandType::is_match
IsMatch(type, expr) ==
    CASE type = "None" -> IF expr = "" THEN TRUE ELSE FALSE
      [] type = "Imm64" -> Stoi(expr).kind = "Some"
      [] type = "Reg64" -> GetReg64Str(expr).kind = "Some"
      [] type = "Rm64" -> \/ GetReg64Str(expr).kind = "Some"
                          \/ GetRm64RefStr(expr).kind = "Some"

Rule(opecode, rexRule, modrm, imm, add_reg) ==
    [opecode |-> SVecValue(<<opecode, 0, 0>>, 1), rex |-> rexRule, modrm |-> modrm,
     imm |-> imm, add_reg |-> add_reg]

Operator(mnemonic, operands, len, rule) ==
    [mnemonic |-> mnemonic, operands |-> SVecValue(operands, len),
     encoding_rule |-> rule]

MovRegImm == Operator("mov", <<"Reg64", "Imm64">>, 2,
                      Rule(184, "RexW", "None", "Id", "Rd"))
MovRegRm == Operator("mov", <<"Reg64", "Rm64">>, 2,
                     Rule(139, "RexW", "R", "None", "None"))
PushReg == Operator("push", <<"Reg64", "None">>, 1,
                    Rule(80, "None", "None", "None", "Rd"))
PopReg == Operator("pop", <<"Reg64", "None">>, 1,
                   Rule(88, "RexW", "None", "None", "Rd"))
Ret == Operator("ret", <<"None", "None">>, 0,
                Rule(195, "None", "None", "None", "None"))

\* pub static operators
operators == <<MovRegImm, MovRegRm, PushReg, PopReg, Ret>>

\* for k in 0..row.operands.len(): the flag loop of get_operation_index, from
\* index k on. Reading self.operands[k] at or beyond its length is a panic.
RECURSIVE OperandsMatch(_, _, _)
OperandsMatch(row, self, k) ==
    IF k >= SVecLen(row.operands) THEN "match"
    ELSE IF k >= SVecLen(self.operands) THEN "panic"
    ELSE IF ~IsMatch(row.operands.array[k], self.operands.array[k]) THEN "nomatch"
    ELSE OperandsMatch(row, self, k + 1)

\* A guard that forgets to compare the arities.
RowGuardNoArity(row, self) ==
    /\ self.mnemonic.kind = "Some"
    /\ self.mnemonic.value = row.mnemonic

\* The guard of the scan; the arity comparison is its third conjunct.
RowGuard(row, self) ==
    /\ self.mnemonic.kind = "Some"
    /\ self.mnemonic.value = row.mnemonic
    /\ SVecLen(row.operands) = SVecLen(self.operands)

\* for i in 0..operators_list.len(), from index i on.
RECURSIVE ScanFrom(_, _, _)
ScanFrom(self, operators_list, i) ==
    IF i >= Len(operators_list) THEN None
    ELSE LET row == operators_list[i + 1]
             flag == IF RowGuard(row, self) THEN OperandsMatch(row, self, 0)
                     ELSE "nomatch"
         IN  CASE flag = "match" -> Some(i)
               [] flag = "panic" -> Panic
               [] flag = "nomatch" -> ScanFrom(self, operators_list, i + 1)

GetOperationIndex(self, operators_list) == ScanFrom(self, operators_list, 0)

Line(label, ops) == [label |-> label, ops |-> ops]

\* A to_line that turns a failed lookup into a label-only line.
ToLineDropsFailure(self, operators_list) ==
    IF self.mnemonic.kind = "Some"
    THEN LET index == GetOperationIndex(self, operators)
         IN  IF index.kind = "Some" /\ index.value < Len(operators_list)
             THEN [ret |-> Some(Line(self.label,
                                     Some(<<operators_list[index.value + 1],
                                            self.operands>>))),
                   scanned |-> TRUE]
             ELSE [ret |-> Some(Line(self.label, None)), scanned |-> TRUE]
    ELSE [ret |-> Some(Line(self.label, None)), scanned |-> FALSE]

\* A to_line that makes the lookup before it looks at the mnemonic.
ToLineAlwaysScans(self, operators_list) ==
    LET index == GetOperationIndex(self, operators)
    IN  IF index.kind = "Some" /\ index.value < Len(operators_list)
        THEN [ret |-> Some(Line(self.label,
                                Some(<<operators_list[index.value + 1],
                                       self.operands>>))),
              scanned |-> TRUE]
        ELSE [ret |-> IF index.kind = "Some" THEN Panic ELSE None, scanned |-> TRUE]

\* RowLine::to_line. The lookup is made in the static operators table; the
\* index it yields is then used on operators_list.
ToLine(self, operators_list) ==
    IF self.mnemonic.kind = "Some"
    THEN LET index == GetOperationIndex(self, operators)
         IN  CASE index.kind = "None" -> [ret |-> None, scanned |-> TRUE]
               [] index.kind = "Panic" -> [ret |-> Panic, scanned |-> TRUE]
               [] index.kind = "Some" ->
                    IF index.value >= Len(operators_list)
                    THEN [ret |-> Panic, scanned |-> TRUE]
                    ELSE [ret |-> Some(Line(self.label,
                                            Some(<<operators_list[index.value + 1],
                                                   self.operands>>))),
                          scanned |-> TRUE]
    ELSE [ret |-> Some(Line(self.label, None)), scanned |-> FALSE]

\* The step between a resolved line and the Encoder, which this repository
\* keeps outside the three files modelled: the register number of a register
\* name, and the Encoder a rule prescribes for a register and an immediate.
RegisterNumber(expr) == IF expr = "rax" THEN 0 ELSE 1

\* REX mode: none, or REX.W forced.
RexOfRule(rule) ==
    IF rule.rex = "RexW" THEN RexSetW(RexEnable(RexNew), TRUE) ELSE RexNew

\* Register-addition mode: none, or the register number added into the low
\* 3 bits of the last opcode byte.
OpecodeOfRule(rule, reg) ==
    IF rule.add_reg = "None" THEN rule.opecode
    ELSE LET last == rule.opecode.len - 1
         IN  [rule.opecode EXCEPT
                !.array[last] = rule.opecode.array[last] + And8(reg, 7)]

\* Immediate mode: none, or 8 (Ib), 16 (Iw), 32 (Id) or 64 (Io) bits of the
\* value, a sequence of four limbs.
ImmOfRule(rule, value) ==
    CASE rule.imm = "None" -> ImmNone
      [] rule.imm = "Ib" -> Imm8(value[4] % 256)
      [] rule.imm = "Iw" -> Imm16(SubSeq(value, 4, 4))
      [] rule.imm = "Id" -> Imm32(SubSeq(value, 3, 4))
      [] rule.imm = "Io" -> Imm64(value)

EncoderOfRule(rule, reg, value) ==
    [EncoderNew EXCEPT !.rex_prefix = RexOfRule(rule),
                       !.opecode = OpecodeOfRule(rule, reg),
                       !.imm = ImmOfRule(rule, value)]

\* The raw lines and the tables the specification draws from.
Labels == {None, Some("L")}
Mnemonics == {None, Some("mov"), Some("push"), Some("ret"), Some("xyz")}
OperandTexts == {"", "rax", "123", "[rax]"}
OperandSeqs ==
    {[array |-> a, len |-> n] :
        a \in [0..(OperandCap - 1) -> OperandTexts], n \in 0..OperandCap}
RowLines == [label : Labels, mnemonic : Mnemonics, operands : OperandSeqs]

\* Two rows that are not in the static table: one overlapping MovRegRm, one
\* with a None operand type inside its pattern.
MovRmRm == Operator("mov", <<"Rm64", "Rm64">>, 2,
                    Rule(137, "RexW", "R", "None", "None"))
RetNone == Operator("ret", <<"None", "None">>, 1,
                    Rule(194, "None", "None", "None", "None"))
Rows == {MovRegImm, MovRegRm, PushReg, Ret, MovRmRm, RetNone}

\* The longest table drawn besides the static one.
MaxTableLen == 2

RECURSIVE SeqsUpTo(_, _)
SeqsUpTo(S, n) ==
    IF n = 0 THEN {<<>>}
    ELSE LET shorter == SeqsUpTo(S, n - 1)
         IN  shorter \cup {Append(t, x) : t \in {u \in shorter : Len(u) = n - 1}, x \in S}

Tables == SeqsUpTo(Rows, MaxTableLen) \cup {operators}

NotCalled == [kind |-> "NotCalled"]
Returned(r) == [kind |-> "Returned", out |-> r]

RowLineNew(label, mnemonic, operands) ==
    [label |-> label, mnemonic |-> mnemonic, operands |-> operands]

LineIdle ==
    /\ rowLine = RowLineNew(None, None, [array |-> [i \in 0..(OperandCap - 1) |-> ""],
                                         len |-> 0])
    /\ operatorsList = <<>>
    /\ lineResult = NotCalled
    /\ indexResult = NotCalled

CallToLine ==
    /\ lineResult' = Returned(ToLine(rowLine, operatorsList))
    /\ UNCHANGED <<rowLine, operatorsList, indexResult, svecVars, fieldVars, encoderVars>>

CallGetOperationIndex ==
    /\ indexResult' = Returned(GetOperationIndex(rowLine, operatorsList))
    /\ UNCHANGED <<rowLine, operatorsList, lineResult, svecVars, fieldVars, encoderVars>>

(***************************************************************************)
(* The specifications                                                      *)
(***************************************************************************)

InitSVec == SVecIdle /\ FieldsIdle /\ EncoderIdle /\ LineIdle
NextSVec == Push \/ Pop \/ Resize
SpecSVec == InitSVec /\ [][NextSVec]_vars

\* Rex::new(), ModRm::new() and Sib::new(); a behaviour drives one of them.
InitFields ==
    /\ SVecIdle /\ EncoderIdle /\ LineIdle
    /\ rex = RexNew
    /\ modRm = ModRmNew
    /\ sib = SibNew
    /\ lastSet = NeverSet
    /\ fieldObject \in {"Rex", "ModRm", "Sib"}
NextFields ==
    \/ Enable \/ SetW \/ SetR \/ SetX \/ SetB
    \/ SetMod \/ SetReg \/ SetRm
    \/ SetScale \/ SetIndex \/ SetBase
SpecFields == InitFields /\ [][NextFields]_vars

InitEncoder ==
    /\ SVecIdle /\ FieldsIdle /\ LineIdle
    /\ encoder \in Encoders
    /\ binary = None
NextEncoder == DoEncode
SpecEncoder == InitEncoder /\ [][NextEncoder]_vars

InitLine ==
    /\ SVecIdle /\ FieldsIdle /\ EncoderIdle
    /\ rowLine \in RowLines
    /\ operatorsList \in Tables
    /\ lineResult = NotCalled
    /\ indexResult = NotCalled
NextLine == CallToLine \/ CallGetOperationIndex
SpecLine == InitLine /\ [][NextLine]_vars

(***************************************************************************)
(* Properties of SVec (SpecSVec)                                           *)
(***************************************************************************)

LenInRange == 0 <= svec.len /\ svec.len <= SVecC

\* push succeeds and grows len by one exactly when len < C, and panics
\* exactly when len = C.
PushContract ==
    svecCall.op = "push" =>
        /\ svecCall.panic <=> svecCall.pre.len = SVecC
        /\ ~svecCall.panic <=> svecCall.pre.len < SVecC
        /\ ~svecCall.panic => svec.len = svecCall.pre.len + 1

\* pop panics exactly when len = 0 and otherwise returns the element at
\* index len-1, shrinks len by one and leaves the lower indices alone.
PopContract ==
    svecCall.op = "pop" =>
        /\ svecCall.panic <=> svecCall.pre.len = 0
        /\ ~svecCall.panic =>
              /\ svecCall.elm = svecCall.pre.array[svecCall.pre.len - 1]
              /\ svec.len = svecCall.pre.len - 1
              /\ \A i \in 0..(svec.len - 1) : svec.array[i] = svecCall.pre.array[i]

PoppedTop == svecCall.preGhost[Len(svecCall.preGhost)]

\* C7 as stated: in every state reachable by push, pop and resize,
\* 0 <= len <= C; push succeeds (len + 1) exactly when len < C and panics
\* exactly when len = C; pop panics exactly when len = 0 and otherwise returns
\* the element at index len-1, which is the most recently pushed element not
\* yet removed, and shrinks len by one leaving the lower indices unchanged.
C7_BoundedStackPushedTop ==
    /\ LenInRange
    /\ PushContract
    /\ PopContract
    /\ (svecCall.op = "pop" /\ ~svecCall.panic) =>
          (PoppedTop.src = "push" /\ svecCall.elm = PoppedTop.val)

\* C7 as amended: the same, except that the element pop returns is the most
\* recently pushed element not yet removed only when index len-1 was filled
\* by a push; when a growing resize filled it, pop returns the default value.
C7_BoundedStack ==
    /\ LenInRange
    /\ PushContract
    /\ PopContract
    /\ (svecCall.op = "pop" /\ ~svecCall.panic) =>
          /\ PoppedTop.src = "push" => svecCall.elm = PoppedTop.val
          /\ PoppedTop.src = "default" => svecCall.elm = Default

\* A pop that returned a slot filled by resize while a pushed, non-default
\* element sits below it.
C7_Witness ==
    /\ svecCall.op = "pop" /\ ~svecCall.panic
    /\ PoppedTop.src = "default"
    /\ svec.len > 0
    /\ svecGhost[1].src = "push" /\ svec.array[0] # Default

\* C8: resize(n) panics exactly when n > C; otherwise len becomes n, the
\* elements at indices [0, min(old_len, n)) are unchanged and those at
\* indices [old_len, n) equal the default value, stale slots included.
C8_Resize ==
    svecCall.op = "resize" =>
        /\ svecCall.panic <=> svecCall.arg > SVecC
        /\ ~svecCall.panic =>
              /\ svec.len = svecCall.arg
              /\ \A i \in 0..(Min(svecCall.pre.len, svecCall.arg) - 1) :
                    svec.array[i] = svecCall.pre.array[i]
              /\ \A i \in svecCall.pre.len..(svecCall.arg - 1) :
                    svec.array[i] = Default

\* A growing resize over a stale non-default slot that also keeps a
\* non-default element.
C8_Witness ==
    /\ svecCall.op = "resize" /\ ~svecCall.panic
    /\ svecCall.pre.len > 0 /\ svecCall.pre.array[0] # Default
    /\ \E i \in svecCall.pre.len..(svecCall.arg - 1) : svecCall.pre.array[i] # Default

(***************************************************************************)
(* Properties of the byte-field setters (SpecFields)                       *)
(***************************************************************************)

Flag(b) == IF b THEN 1 ELSE 0

\* C9: each setter writes only its own bit range: ModRM is
\* (mod & 3) << 6 | (reg & 7) << 3 | (rm & 7) of the last arguments, SIB
\* likewise of scale, index, base, and REX is 0x40 | W<<3 | R<<2 | X<<1 | B,
\* never-set fields being 0; so mod=3, reg=0, rm=0 gives 0xC0, a fresh REX
\* is 0x40 and W alone gives 0x48.
C9_FieldSetters ==
    /\ ModRmGet(modRm) = (lastSet.mod % 4) * 64 + (lastSet.reg % 8) * 8 + (lastSet.rm % 8)
    /\ SibGet(sib) = (lastSet.scale % 4) * 64 + (lastSet.index % 8) * 8
                        + (lastSet.base % 8)
    /\ rex.byte = 64 + 8 * Flag(lastSet.w) + 4 * Flag(lastSet.r)
                     + 2 * Flag(lastSet.x) + Flag(lastSet.b)
    /\ rex.byte \div 16 = 4
    /\ (lastSet.mod = 3 /\ lastSet.reg = 0 /\ lastSet.rm = 0) => ModRmGet(modRm) = 192
    /\ (~lastSet.w /\ ~lastSet.r /\ ~lastSet.x /\ ~lastSet.b) => rex.byte = 64
    /\ (lastSet.w /\ ~lastSet.r /\ ~lastSet.x /\ ~lastSet.b) => rex.byte = 72

\* A ModRM whose three setters were all called with arguments wider than
\* their fields.
C9_Witness ==
    /\ fieldObject = "ModRm"
    /\ lastSet.mod = 255 /\ lastSet.reg = 170 /\ lastSet.rm = 8
    /\ modRm = 208

(***************************************************************************)
(* Properties of Encoder::encode (SpecEncoder)                             *)
(***************************************************************************)

\* The bytes of a limb sequence, least significant byte first.
RECURSIVE LittleEndian(_)
LittleEndian(v) ==
    IF v = <<>> THEN <<>>
    ELSE LittleEndian(Tail(v)) \o <<Head(v) % 256, Head(v) \div 256>>

RexField(e) == IF e.rex_prefix.enabled THEN <<e.rex_prefix.byte>> ELSE <<>>
OpecodeField(e) == [i \in 1..e.opecode.len |-> e.opecode.array[i - 1]]
ModRmField(e) == IF e.mod_rm = None THEN <<>> ELSE <<e.mod_rm.value>>
SibField(e) == IF e.sib = None THEN <<>> ELSE <<e.sib.value>>
DispField(e) ==
    CASE e.disp.tag = "None" -> <<>>
      [] e.disp.tag = "Disp8" -> <<e.disp.b>>
      [] e.disp.tag = "Disp32" -> LittleEndian(e.disp.v)
ImmField(e) ==
    CASE e.imm.tag = "None" -> <<>>
      [] e.imm.tag = "Imm8" -> <<e.imm.b>>
      [] OTHER -> LittleEndian(e.imm.v)
DispWidth(e) ==
    CASE e.disp.tag = "None" -> 0 [] e.disp.tag = "Disp8" -> 1 [] e.disp.tag = "Disp32" -> 4
ImmWidth(e) ==
    CASE e.imm.tag = "None" -> 0 [] e.imm.tag = "Imm8" -> 1 [] e.imm.tag = "Imm16" -> 2
      [] e.imm.tag = "Imm32" -> 4 [] e.imm.tag = "Imm64" -> 8

\* C1: encode() returns exactly REX (iff enabled), the opcode bytes in
\* order, ModRM (iff present), SIB (iff present), the displacement (0, 1 or
\* 4 bytes, little-endian) and the immediate (0, 1, 2, 4 or 8 bytes,
\* little-endian), concatenated in this order; its length is the sum of
\* those widths.
C1_EncodeLayout ==
    binary.kind = "Some" =>
        /\ ~binary.value.panic
        /\ SVecSlice(binary.value.svec) =
              RexField(encoder) \o OpecodeField(encoder) \o ModRmField(encoder)
                \o SibField(encoder) \o DispField(encoder) \o ImmField(encoder)
        /\ SVecLen(binary.value.svec) =
              Flag(encoder.rex_prefix.enabled) + encoder.opecode.len
                + Flag(encoder.mod_rm # None) + Flag(encoder.sib # None)
                + DispWidth(encoder) + ImmWidth(encoder)

\* An encoding of a disabled REX with field bits set, two opcode bytes with
\* a stale third, ModRM, SIB, a 4-byte displacement and an 8-byte immediate.
C1_Witness ==
    /\ binary.kind = "Some"
    /\ ~encoder.rex_prefix.enabled /\ encoder.rex_prefix.byte = 77
    /\ encoder.opecode.len = 2 /\ encoder.opecode.array[2] = 184
    /\ encoder.mod_rm # None /\ encoder.sib # None
    /\ encoder.disp.tag = "Disp32"
    /\ encoder.imm = Imm64(<<258, 772, 1286, 1800>>)
    /\ SVecSlice(binary.value.svec) =
          <<15, 15, 193, 36, 120, 86, 52, 18, 8, 7, 6, 5, 4, 3, 2, 1>>

\* C10: encode() never panics on capacity: with at most 3 opcode bytes, every
\* push into the 18-byte sequence succeeds and the result has at most 18
\* bytes.
C10_EncodeFits ==
    binary.kind = "Some" =>
        /\ ~binary.value.panic
        /\ SVecLen(binary.value.svec) <= 18

\* An encoding that fills the 18 bytes.
C10_Witness ==
    /\ binary.kind = "Some"
    /\ ~binary.value.panic
    /\ SVecLen(binary.value.svec) = 18
    /\ encoder.rex_prefix.enabled /\ encoder.opecode.len = OpecodeCap

(***************************************************************************)
(* Properties of the line resolver (SpecLine)                              *)
(***************************************************************************)

\* What each operand type accepts.
Accepts(type, text) ==
    \/ type = "None" /\ text = ""
    \/ type = "Imm64" /\ text \in NumericLiterals
    \/ type = "Reg64" /\ text \in RegisterNames
    \/ type = "Rm64" /\ text \in RegisterNames \cup MemoryReferences

\* A row qualifies for a raw line: same mnemonic, same arity, every operand
\* accepted at its position.
Qualifies(row, raw) ==
    /\ raw.mnemonic = Some(row.mnemonic)
    /\ row.operands.len = raw.operands.len
    /\ \A k \in 0..(raw.operands.len - 1) :
          Accepts(row.operands.array[k], raw.operands.array[k])

\* The 0-based indices of the rows of a table that qualify.
QualifyingRows(raw, table) ==
    {i \in 0..(Len(table) - 1) : Qualifies(table[i + 1], raw)}

FirstOf(S) == CHOOSE i \in S : \A j \in S : i <= j

LineReturned == lineResult.kind = "Returned"
IndexReturned == indexResult.kind = "Returned"

\* C2 as stated: to_line(table) resolves against the table it is given: with
\* a mnemonic, its result is the first qualifying row of the passed table,
\* paired with the raw operands, and it is absent exactly when the passed
\* table has no qualifying row.
C2_ToLineUsesPassedTable ==
    (LineReturned /\ rowLine.mnemonic # None) =>
        LET Q == QualifyingRows(rowLine, operatorsList)
        IN  /\ Q # {} =>
                  lineResult.out.ret =
                      Some(Line(rowLine.label,
                                Some(<<operatorsList[FirstOf(Q) + 1], rowLine.operands>>)))
            /\ Q = {} <=> lineResult.out.ret = None

\* C3: get_operation_index returns Some(i) for the smallest qualifying index
\* i, and None exactly when no row qualifies or the mnemonic is absent;
\* against the static table "xyz" and a two-operand push give None; no operand
\* index outside the raw operand list is read.
C3_FirstMatchWins ==
    IndexReturned =>
        LET Q == QualifyingRows(rowLine, operatorsList)
            out == indexResult.out
        IN  /\ out # Panic
            /\ Q # {} => out = Some(FirstOf(Q))
            /\ out = None <=> Q = {}
            /\ rowLine.mnemonic = None => out = None
            /\ (operatorsList = operators /\ rowLine.mnemonic = Some("xyz")) => out = None
            /\ (/\ operatorsList = operators
                /\ rowLine.mnemonic = Some("push")
                /\ rowLine.operands.len = 2) => out = None

\* Two rows qualify and the first is returned.
C3_Witness ==
    /\ IndexReturned
    /\ Cardinality(QualifyingRows(rowLine, operatorsList)) = 2
    /\ operatorsList[1] # operatorsList[2]
    /\ indexResult.out = Some(0)

\* C5 as stated: when no row matches a raw line that has a mnemonic, to_line
\* returns an "unrecognized instruction" outcome that carries the offending
\* mnemonic and operands.
C5_StructuredFailure ==
    (/\ LineReturned
     /\ rowLine.mnemonic # None
     /\ QualifyingRows(rowLine, operators) = {}
     /\ QualifyingRows(rowLine, operatorsList) = {}) =>
        /\ lineResult.out.ret.kind = "Unrecognized"
        /\ lineResult.out.ret.mnemonic = rowLine.mnemonic.value
        /\ lineResult.out.ret.operands = rowLine.operands

\* C5 as amended: when the lookup to_line makes finds no row for a raw line
\* that has a mnemonic, to_line returns None, the bare absence of a result,
\* and it returns None in no other case: the failure is never turned into a
\* resolved line, but carries neither the mnemonic nor the operands.
C5_FailureIsNone ==
    LineReturned =>
        (lineResult.out.ret = None <=>
            (rowLine.mnemonic # None /\ QualifyingRows(rowLine, operators) = {}))

\* A failed resolution of a labelled two-operand line.
C5_Witness ==
    /\ LineReturned
    /\ rowLine.mnemonic = Some("push") /\ rowLine.operands.len = 2
    /\ rowLine.label # None
    /\ operatorsList = operators
    /\ lineResult.out.ret = None

\* C6: a raw line without mnemonic always resolves, without the table being
\* consulted, to a line with the raw label and no ops; and every line that
\* resolves with a mnemonic carries the raw label and the raw operands.
C6_PassThrough ==
    LineReturned =>
        /\ rowLine.mnemonic = None =>
              /\ lineResult.out.ret = Some(Line(rowLine.label, None))
              /\ ~lineResult.out.scanned
        /\ (rowLine.mnemonic # None /\ lineResult.out.ret.kind = "Some") =>
              /\ lineResult.out.ret.value.label = rowLine.label
              /\ lineResult.out.ret.value.ops.kind = "Some"
              /\ lineResult.out.ret.value.ops.value[2] = rowLine.operands

\* A labelled line without mnemonic, with operands, resolved against an
\* empty table.
C6_Witness ==
    /\ LineReturned
    /\ rowLine.mnemonic = None /\ rowLine.label = Some("L")
    /\ rowLine.operands.len = 2 /\ rowLine.operands.array[0] = "rax"
    /\ operatorsList = <<>>
    /\ lineResult.out.ret.kind = "Some"

\* The Encoder of the documentation example of encoder.rs: REX enabled with
\* W set, opcode 0xb8 + 0, Imm64(123).
DocExampleEncoder ==
    [EncoderNew EXCEPT
        !.rex_prefix = RexSetR(RexSetW(RexEnable(RexNew), TRUE), FALSE),
        !.opecode = SVecPush(OpecodeCap, SVecNew(OpecodeCap), 184 + 0).svec,
        !.imm = Imm64(<<0, 0, 0, 123>>)]

MovRax123 ==
    /\ rowLine.mnemonic = Some("mov")
    /\ rowLine.operands.len = 2
    /\ rowLine.operands.array[0] = "rax"
    /\ rowLine.operands.array[1] = "123"

\* C4 as stated: `mov rax, 123` resolves against the static table to the
\* Reg64+Imm64 row, and the encoding that row's rule prescribes (its REX
\* mode, opcode, register addition and immediate mode) is the 10 bytes
\* 48 B8 7B 00 00 00 00 00 00 00 that REX.W + 0xB8 + Imm64(123) encodes to.
C4_MovRaxImm64 ==
    (LineReturned /\ MovRax123 /\ operatorsList = operators) =>
        /\ lineResult.out.ret.kind = "Some"
        /\ lineResult.out.ret.value.ops.value[1] = MovRegImm
        /\ LET rule == lineResult.out.ret.value.ops.value[1].encoding_rule
                text == lineResult.out.ret.value.ops.value[2]
                byRule == Encode(EncoderOfRule(rule, RegisterNumber(text.array[0]),
                                               Stoi(text.array[1]).value))
            IN  /\ SVecSlice(Encode(DocExampleEncoder).svec) =
                      <<72, 184, 123, 0, 0, 0, 0, 0, 0, 0>>
                /\ SVecSlice(byRule.svec) = <<72, 184, 123, 0, 0, 0, 0, 0, 0, 0>>

====
